---- MODULE Spec2Model ----
(***************************************************************************)
(* The Roundabout of tef/crow (roundabout.go, package crow): a 64-bit      *)
(* atomic header (epoch:16, flags:16, bitmap:32), a ring of 32 atomic      *)
(* cells (epoch:16, kind:16, lane:32), and the push / wait / pop and       *)
(* setFence / spinFence / clearFence protocol run by concurrent threads.   *)
(*                                                                         *)
(* Every atomic load, store, CAS and And of the source is one step of one  *)
(* thread; the computation a thread does on its own locals between two     *)
(* atomic accesses belongs to the step of the access that precedes it.     *)
(*                                                                         *)
(* 32-bit words (bitmaps, lanes) and 16-bit flag words are sets of the     *)
(* positions of their 1 bits: AND is \cap, OR is \cup, XOR is the          *)
(* symmetric difference, and a mask keeps the positions it names.  Epochs  *)
(* are integers kept modulo 2^16.                                          *)
(***************************************************************************)
EXTENDS Integers, FiniteSets, Sequences, TLC

(***************************************************************************)
(* Bounds of the model.                                                    *)
(***************************************************************************)
MaxOps == 2            \* calls of public operations started in one run

\* the threads calling into one Roundabout
Threads == {1, 2}

(***************************************************************************)
(* Program constants.                                                      *)
(***************************************************************************)
width == 32

ZeroCell    == 0
PendingCell == 1
ShareLane   == 2
ShareRing   == 3
OrderLane   == 4
OrderRing   == 5
LockLane    == 6
LockRing    == 7

LaneKinds == {ShareLane, OrderLane, LockLane}
RingKinds == {ShareRing, OrderRing, LockRing}
ShareKinds == {ShareLane, ShareRing}
OrderKinds == {OrderLane, OrderRing}
SemanticKinds == LaneKinds \cup RingKinds

(***************************************************************************)
(* uint16 / uint32 arithmetic.                                             *)
(***************************************************************************)
Mod16(x) == (x + 65536) % 65536

\* the positions of the 1 bits of the literal 2147483647 (0x7FFFFFFF)
Mask2147483647 == 0..30

\* bits.RotateLeft32(x, k), k of either sign
RotateLeft32(x, k) == {(((b + k) % 32) + 32) % 32 : b \in x}

\* x >> k on a uint32
Shr(x, k) == {b - k : b \in {c \in x : c >= k}}

\* the clearing expression written with | in place of ^
Xor_or(a, b) == a \cup b

\* a ^ b on flag words
Xor(a, b) == (a \ b) \cup (b \ a)

(***************************************************************************)
(* Header and Cell, and their 64-bit packed forms.  A packed word is the   *)
(* triple of its bit fields 48..63, 32..47 and 0..31.                      *)
(***************************************************************************)
Header(e, f, bm) == [epoch |-> e, flags |-> f, bitmap |-> bm]

packHeader(h) == [hi |-> h.epoch, mid |-> h.flags, lo |-> h.bitmap]

unpackHeader(w) == Header(w.hi, w.mid, w.lo \cap Mask2147483647)

Cell(e, k, l) == [epoch |-> e, kind |-> k, lane |-> l]

packCell(c) == [hi |-> c.epoch, mid |-> c.kind, lo |-> c.lane]

unpackCell(w) == Cell(w.hi, w.mid, w.lo \cap Mask2147483647)

(***************************************************************************)
(* Inputs: the lanes and flag words the callers pass.                      *)
(***************************************************************************)
Lane1    == {0}          \* lane 1
Lane2    == {1}          \* lane 2
LaneTop1 == {0, 31}      \* lane 0x80000001
Lanes == {Lane1, Lane2, LaneTop1}

FlagArgs == {{0}, {1}, {0, 1}}   \* Fence(0x1, ..), Fence(0x2, ..), Fence(0x3, ..)

\* the header epochs a run starts from (see QuiescentAt)
StartEpochs == {0, 31}


\* an installed Roundabout.Conflict predicate: a & b == a
CustomConflict(a, b) == a \subseteq b

(***************************************************************************)
(* State.                                                                  *)
(***************************************************************************)
VARIABLES
    header,     \* Roundabout.header, the packed word
    log,        \* Roundabout.log, 32 packed words
    Conflict,   \* Roundabout.Conflict: "nil" or "custom"
    pc,         \* where each thread is in its call
    op,         \* the call a thread is in: [proc, kind, lane, flags]
    hdr,        \* the local `header` of push / setFence / clearFence
    r,          \* the rb_cell returned by push
    s,          \* the rb_fence returned by setFence
    scan,       \* the locals i, epoch, bitmap of wait / spinFence
    item,       \* the local `item` of the spin loop: the cell last loaded
                \* for the predecessor the scan stands at, <<>> if none yet
    cb,         \* the arguments the running callback was invoked with
    adm,        \* history: the header word replaced by the thread's CAS
    nops,       \* history: calls started so far
    err,        \* the error value the thread's callback fn returned
    ret,        \* the procedure the thread last returned from and the error it returned
    nadm,       \* history: admissions (successful push CASes) since construction
    active,     \* the last call of Active: its argument, its result, and (history)
                \* whether a descriptor admitted at that epoch was on the ring
    probe,      \* the last decision of wait computed for a given caller and
                \* a given published predecessor, and the decision for the two exchanged
    raised      \* history: the (epoch, flags) of the admissions whose CAS landed
                \* between the thread's setFence CAS and its clearFence CAS

vars == <<header, log, Conflict, pc, op, hdr, r, s, scan, item, cb, adm, nops,
          err, ret, nadm, raised, active, probe>>

NoWord  == [hi |-> 0, mid |-> {}, lo |-> {}]
NoOp    == [proc |-> "none", kind |-> ZeroCell, lane |-> {}, flags |-> {}]
NoCell  == [n |-> 0, epoch |-> 0, flags |-> {}, kind |-> ZeroCell, lane |-> {}, bitmap |-> {}]
NoFence == [epoch |-> 0, flags |-> {}, new_flags |-> {}, bitmap |-> {}]
NoScan  == [i |-> 0, epoch |-> 0, bitmap |-> {}]
NoRet   == [proc |-> "none", err |-> "none"]
NoActive == [called |-> FALSE, epoch |-> 0, result |-> FALSE, live |-> FALSE]
NoProbe == [done |-> FALSE, ck |-> ZeroCell, cl |-> {}, pk |-> ZeroCell, pl |-> {},
            blocks |-> FALSE, exchanged |-> FALSE]

(***************************************************************************)
(* The zero-initialized Roundabout, and the Roundabout after e0 calls of   *)
(* admission operations have run to completion one after another: the      *)
(* header is (e0, 0, 0), a slot that was used rests at (next epoch of the  *)
(* slot, Pending, 0) as pop left it, a slot never used is still zero.      *)
(***************************************************************************)
ZeroWord == [hi |-> 0, mid |-> 0, lo |-> {}]

RestingEpoch(e0, n) == Mod16(e0 + ((n + width - (e0 % width)) % width))

QuiescentAt(e0) ==
    [n \in 0..(width - 1) |->
        IF e0 < width /\ n >= e0
        THEN ZeroWord
        ELSE packCell(Cell(RestingEpoch(e0, n), PendingCell, {}))]

InitAt(e0) ==
    /\ header = packHeader(Header(e0, {}, {}))
    /\ log = QuiescentAt(e0)
    /\ nadm = e0
    /\ Conflict \in {"nil", "custom"}
    /\ pc = [t \in Threads |-> "idle"]
    /\ op = [t \in Threads |-> NoOp]
    /\ hdr = [t \in Threads |-> NoWord]
    /\ r = [t \in Threads |-> NoCell]
    /\ s = [t \in Threads |-> NoFence]
    /\ scan = [t \in Threads |-> NoScan]
    /\ item = [t \in Threads |-> <<>>]
    /\ cb = [t \in Threads |-> <<>>]
    /\ adm = [t \in Threads |-> NoWord]
    /\ nops = 0
    /\ err = [t \in Threads |-> "none"]
    /\ ret = [t \in Threads |-> NoRet]
    /\ raised = [t \in Threads |-> {}]
    /\ active = NoActive
    /\ probe = NoProbe

Init == \E e0 \in StartEpochs : InitAt(e0)

(***************************************************************************)
(* The public operations: each call enters its `for true` loop at push     *)
(* (or setFence).                                                          *)
(***************************************************************************)
Call(t, proc, kind, lane, flags, first) ==
    /\ pc[t] = "idle"
    /\ nops < MaxOps
    /\ nops' = nops + 1
    /\ op' = [op EXCEPT ![t] = [proc |-> proc, kind |-> kind, lane |-> lane, flags |-> flags]]
    /\ pc' = [pc EXCEPT ![t] = first]
    /\ ret' = [ret EXCEPT ![t] = NoRet]
    /\ UNCHANGED <<header, log, Conflict, hdr, r, s, scan, item, cb, adm, err, nadm, raised, active, probe>>

DoLockRing(t)  == Call(t, "LockRing", LockRing, {}, {}, "push")
DoOrderRing(t) == Call(t, "OrderRing", OrderRing, {}, {}, "push")
DoShareRing(t) == Call(t, "ShareRing", ShareRing, {}, {}, "push")
DoLockLane(t)  == \E lane \in Lanes : Call(t, "LockLane", LockLane, lane, {}, "push")
DoOrderLane(t) == \E lane \in Lanes : Call(t, "OrderLane", OrderLane, lane, {}, "push")
DoShareLane(t) == \E lane \in Lanes : Call(t, "ShareLane", ShareLane, lane, {}, "push")
DoFence(t)     == \E flags \in FlagArgs : Call(t, "Fence", ZeroCell, {}, flags, "setFence")
DoPhase(t)     == \E flags \in FlagArgs : Call(t, "Phase", ZeroCell, {}, flags, "setFence")


(***************************************************************************)
(* push: load the header, test the bit of slot epoch % width, CAS the new  *)
(* header in, store the descriptor into the cell.                          *)
(***************************************************************************)
\* push retries while any flag bit is raised
PushLoad_gatedByFlags(t) ==
    /\ pc[t] = "push"
    /\ LET h == unpackHeader(header)
           n == h.epoch % width
       IN  IF n \in h.bitmap \/ h.flags # {}
           THEN UNCHANGED <<pc, hdr>>
           ELSE /\ hdr' = [hdr EXCEPT ![t] = header]
                /\ pc' = [pc EXCEPT ![t] = "push_cas"]
    /\ UNCHANGED <<header, log, Conflict, op, r, s, scan, item, cb, adm, nops, err, ret, nadm, raised, active, probe>>

PushLoad(t) ==
    /\ pc[t] = "push"
    /\ LET h == unpackHeader(header)
           n == h.epoch % width
       IN  IF n \in h.bitmap
           THEN \* return rb_cell{}, false; the caller loops
                UNCHANGED <<pc, hdr>>
           ELSE /\ hdr' = [hdr EXCEPT ![t] = header]
                /\ pc' = [pc EXCEPT ![t] = "push_cas"]
    /\ UNCHANGED <<header, log, Conflict, op, r, s, scan, item, cb, adm, nops, err, ret, nadm, raised, active, probe>>

\* u has won its setFence CAS and not yet its clearFence CAS
FlagsUp(u) == pc[u] \in {"spinFence", "fence_callback", "clearFence", "clearFence_cas"}

PushCAS(t) ==
    /\ pc[t] = "push_cas"
    /\ LET h == unpackHeader(hdr[t])
           n == h.epoch % width
           new_header == packHeader(Header(Mod16(h.epoch + 1), h.flags, h.bitmap \cup {n}))
       IN  IF header = hdr[t]
           THEN /\ header' = new_header
                /\ adm' = [adm EXCEPT ![t] = header]
                /\ pc' = [pc EXCEPT ![t] = "push_store"]
                /\ nadm' = nadm + 1
                /\ raised' = [u \in Threads |-> IF FlagsUp(u) THEN raised[u] \cup {[epoch |-> h.epoch, flags |-> h.flags]}
                                                    ELSE raised[u]]
                /\ UNCHANGED hdr
           ELSE /\ pc' = [pc EXCEPT ![t] = "push"]
                /\ hdr' = [hdr EXCEPT ![t] = NoWord]
                /\ UNCHANGED <<header, adm, nadm, raised>>
    /\ UNCHANGED <<log, Conflict, op, r, s, scan, item, cb, nops, err, ret, active, probe>>

(***************************************************************************)
(* wait: the scan over the predecessors of the admission snapshot.         *)
(***************************************************************************)
\* the lane test at the end of the spin loop body
laneConflict(conf, a, b) == IF conf = "nil" THEN a = b ELSE CustomConflict(a, b)

\* wait with a ShareRing or ShareLane caller that also blocks on Order cells
waitSpins_shareBlocksOnOrder(conf, rc, it, epoch) ==
    IF it.kind = ZeroCell THEN TRUE
    ELSE IF it.epoch = epoch THEN
        IF it.kind = PendingCell THEN TRUE
        ELSE IF rc.kind = LockRing \/ it.kind = LockRing THEN TRUE
        ELSE IF rc.kind = OrderRing THEN it.kind \notin {ShareLane, ShareRing}
        ELSE IF rc.kind = ShareRing THEN it.kind \in {LockLane, LockRing, OrderRing, OrderLane}
        ELSE IF rc.kind = LockLane /\ it.kind \in {LockRing, OrderRing, ShareRing} THEN TRUE
        ELSE IF rc.kind = OrderLane /\ it.kind \in {LockRing, OrderRing} THEN TRUE
        ELSE IF rc.kind = OrderLane /\ it.kind \in {ShareLane, ShareRing} THEN FALSE
        ELSE IF rc.kind = ShareLane /\ it.kind \in {LockRing, OrderRing} THEN TRUE
        ELSE IF rc.kind = ShareLane /\ it.kind \in {ShareLane, ShareRing} THEN FALSE
        ELSE IF conf = "nil" THEN rc.lane = it.lane ELSE CustomConflict(rc.lane, it.lane)
    ELSE FALSE

\* TRUE iff the spin loop body ends in `continue` for the loaded cell
waitSpins(conf, rc, it, epoch) ==
    IF it.kind = ZeroCell THEN TRUE
    ELSE IF it.epoch = epoch THEN
        IF it.kind = PendingCell THEN TRUE
        ELSE IF rc.kind = LockRing \/ it.kind = LockRing THEN TRUE
        ELSE IF rc.kind = OrderRing THEN it.kind \notin {ShareLane, ShareRing}
        ELSE IF rc.kind = ShareRing THEN it.kind \in {LockLane, LockRing}
        ELSE IF rc.kind = LockLane /\ it.kind \in {LockRing, OrderRing, ShareRing} THEN TRUE
        ELSE IF rc.kind = OrderLane /\ it.kind \in {LockRing, OrderRing} THEN TRUE
        ELSE IF rc.kind = OrderLane /\ it.kind \in {ShareLane, ShareRing} THEN FALSE
        ELSE IF rc.kind = ShareLane /\ it.kind = LockRing THEN TRUE
        ELSE IF rc.kind = ShareLane /\ it.kind \in {OrderLane, OrderRing} THEN FALSE
        ELSE IF rc.kind = ShareLane /\ it.kind \in {ShareLane, ShareRing} THEN FALSE
        ELSE laneConflict(conf, rc.lane, it.lane)
    ELSE FALSE

\* from the head of the for loop at index sc.i: run the iterations that
\* `continue` on a clear bit, stop inside the first one whose bit is set
\* (epoch incremented, bitmap shifted) or at i = 31
RECURSIVE waitNext(_, _, _)
waitNext(i, epoch, bitmap) ==
    IF i >= 31 THEN [i |-> 31, epoch |-> 0, bitmap |-> {}]
    ELSE IF 0 \notin Shr(bitmap, 1)
         THEN waitNext(i + 1, Mod16(epoch + 1), Shr(bitmap, 1))
         ELSE [i |-> i, epoch |-> Mod16(epoch + 1), bitmap |-> Shr(bitmap, 1)]

\* the subtraction r.epoch - 32 stopping at 0 instead of wrapping
waitStart_clamped(rc) ==
    IF rc.bitmap = {} THEN [i |-> 31, epoch |-> 0, bitmap |-> {}]
    ELSE waitNext(0, IF rc.epoch < 32 THEN 0 ELSE rc.epoch - 32,
                  RotateLeft32(rc.bitmap, 0 - rc.n))

waitStart(rc) ==
    IF rc.bitmap = {} THEN [i |-> 31, epoch |-> 0, bitmap |-> {}]
    ELSE waitNext(0, Mod16(rc.epoch - 32), RotateLeft32(rc.bitmap, 0 - rc.n))

\* the callback handed the flags of the header as it is when wait returns
EnterCallback_currentFlags(t, rc, sc) ==
    IF sc.i >= 31
    THEN /\ pc' = [pc EXCEPT ![t] = "callback"]
         /\ cb' = [cb EXCEPT ![t] = <<rc.epoch, unpackHeader(header).flags>>]
    ELSE /\ pc' = [pc EXCEPT ![t] = "wait"]
         /\ UNCHANGED cb

\* wait has returned: fn(rb_cell.epoch, rb_cell.flags) is invoked
EnterCallback(t, rc, sc) ==
    IF sc.i >= 31
    THEN /\ pc' = [pc EXCEPT ![t] = "callback"]
         /\ cb' = [cb EXCEPT ![t] = <<rc.epoch, rc.flags>>]
    ELSE /\ pc' = [pc EXCEPT ![t] = "wait"]
         /\ UNCHANGED cb

\* the rb_cell push returns
rb_cell(n, h, kind, lane) ==
    [n |-> n, epoch |-> h.epoch, flags |-> h.flags,
     kind |-> kind, lane |-> lane, bitmap |-> h.bitmap]

PushStore(t) ==
    /\ pc[t] = "push_store"
    /\ LET h  == unpackHeader(hdr[t])
           n  == h.epoch % width
           rc == rb_cell(n, h, op[t].kind, op[t].lane)
           sc == waitStart(rc)
       IN  /\ log' = [log EXCEPT ![n] = packCell(Cell(h.epoch, op[t].kind, op[t].lane))]
           /\ r' = [r EXCEPT ![t] = rc]
           /\ scan' = [scan EXCEPT ![t] = sc]
           /\ EnterCallback(t, rc, sc)
    /\ hdr' = [hdr EXCEPT ![t] = NoWord]
    /\ UNCHANGED <<header, Conflict, op, s, item, adm, nops, err, ret, nadm, raised, active, probe>>

\* wait moves on from a cell that has not been written yet
WaitStep_passesUnwritten(t) ==
    /\ pc[t] = "wait"
    /\ LET n  == scan[t].epoch % width
           it == unpackCell(log[n])
       IN  IF waitSpins(Conflict, r[t], it, scan[t].epoch) /\ it.kind \notin {ZeroCell, PendingCell}
           THEN /\ item' = [item EXCEPT ![t] = <<it>>]
                /\ UNCHANGED <<pc, scan, cb>>
           ELSE LET sc == waitNext(scan[t].i + 1, scan[t].epoch, scan[t].bitmap)
                IN  /\ item' = [item EXCEPT ![t] = <<>>]
                    /\ scan' = [scan EXCEPT ![t] = sc]
                    /\ EnterCallback(t, r[t], sc)
    /\ UNCHANGED <<header, log, Conflict, op, hdr, r, s, adm, nops, err, ret, nadm, raised, active, probe>>

WaitStep(t) ==
    /\ pc[t] = "wait"
    /\ LET n  == scan[t].epoch % width
           it == unpackCell(log[n])
       IN  IF waitSpins(Conflict, r[t], it, scan[t].epoch)
           THEN /\ item' = [item EXCEPT ![t] = <<it>>]
                /\ UNCHANGED <<pc, scan, cb>>
           ELSE LET sc == waitNext(scan[t].i + 1, scan[t].epoch, scan[t].bitmap)
                IN  /\ item' = [item EXCEPT ![t] = <<>>]
                    /\ scan' = [scan EXCEPT ![t] = sc]
                    /\ EnterCallback(t, r[t], sc)
    /\ UNCHANGED <<header, log, Conflict, op, hdr, r, s, adm, nops, err, ret, nadm, raised, active, probe>>

\* a failing fn makes the call return at once, its slot never retracted
CallbackReturn_skipsPopOnError(t) ==
    /\ pc[t] = "callback"
    /\ cb' = [cb EXCEPT ![t] = <<>>]
    /\ \/ /\ pc' = [pc EXCEPT ![t] = "pop"]
          /\ err' = [err EXCEPT ![t] = "nil"]
          /\ UNCHANGED <<op, r, scan, adm, ret>>
       \/ /\ pc' = [pc EXCEPT ![t] = "idle"]
          /\ ret' = [ret EXCEPT ![t] = [proc |-> op[t].proc, err |-> "error"]]
          /\ op' = [op EXCEPT ![t] = NoOp]
          /\ r' = [r EXCEPT ![t] = NoCell]
          /\ scan' = [scan EXCEPT ![t] = NoScan]
          /\ adm' = [adm EXCEPT ![t] = NoWord]
          /\ UNCHANGED err
    /\ UNCHANGED <<header, log, Conflict, hdr, s, item, nops, nadm, raised, active, probe>>

\* fn returns; the deferred pop runs next
CallbackReturn(t) ==
    /\ pc[t] = "callback"
    /\ pc' = [pc EXCEPT ![t] = "pop"]
    /\ cb' = [cb EXCEPT ![t] = <<>>]
    /\ \E e \in {"nil", "error"} : err' = [err EXCEPT ![t] = e]
    /\ UNCHANGED <<header, log, Conflict, op, hdr, r, s, scan, item, adm, nops, ret, nadm, raised, active, probe>>

(***************************************************************************)
(* pop: store the resting cell, then clear the bit in the header.          *)
(***************************************************************************)
\* pop leaves the descriptor in the cell
PopStore_keepsCell(t) ==
    /\ pc[t] = "pop"
    /\ pc' = [pc EXCEPT ![t] = "pop_and"]
    /\ UNCHANGED <<header, log, Conflict, op, hdr, r, s, scan, item, cb, adm, nops, err, ret, nadm, raised, active, probe>>

PopStore(t) ==
    /\ pc[t] = "pop"
    /\ log' = [log EXCEPT ![r[t].n] =
                  packCell(Cell(Mod16(r[t].epoch + width), PendingCell, {}))]
    /\ pc' = [pc EXCEPT ![t] = "pop_and"]
    /\ UNCHANGED <<header, Conflict, op, hdr, r, s, scan, item, cb, adm, nops, err, ret, nadm, raised, active, probe>>

\* pop clears the bit of the slot after its own
PopAnd_clearsNextBit(t) ==
    /\ pc[t] = "pop_and"
    /\ header' = [header EXCEPT !.lo = @ \ {(r[t].n + 1) % width}]
    /\ pc' = [pc EXCEPT ![t] = "idle"]
    /\ op' = [op EXCEPT ![t] = NoOp]
    /\ r' = [r EXCEPT ![t] = NoCell]
    /\ scan' = [scan EXCEPT ![t] = NoScan]
    /\ adm' = [adm EXCEPT ![t] = NoWord]
    /\ ret' = [ret EXCEPT ![t] = [proc |-> op[t].proc, err |-> err[t]]]
    /\ err' = [err EXCEPT ![t] = "none"]
    /\ UNCHANGED <<log, Conflict, hdr, s, item, cb, nops, nadm, raised, active, probe>>

PopAnd(t) ==
    /\ pc[t] = "pop_and"
    /\ header' = [header EXCEPT !.lo = @ \ {r[t].n}]
    /\ pc' = [pc EXCEPT ![t] = "idle"]
    /\ op' = [op EXCEPT ![t] = NoOp]
    /\ r' = [r EXCEPT ![t] = NoCell]
    /\ scan' = [scan EXCEPT ![t] = NoScan]
    /\ adm' = [adm EXCEPT ![t] = NoWord]
    /\ ret' = [ret EXCEPT ![t] = [proc |-> op[t].proc, err |-> err[t]]]
    /\ err' = [err EXCEPT ![t] = "none"]
    /\ UNCHANGED <<log, Conflict, hdr, s, item, cb, nops, nadm, raised, active, probe>>


(***************************************************************************)
(* setFence / spinFence / clearFence.                                      *)
(***************************************************************************)
\* setFence without the test of the flags that are already set
SetFenceLoad_ignoresSetFlags(t) ==
    /\ pc[t] = "setFence"
    /\ hdr' = [hdr EXCEPT ![t] = header]
    /\ pc' = [pc EXCEPT ![t] = "setFence_cas"]
    /\ UNCHANGED <<header, log, Conflict, op, r, s, scan, item, cb, adm, nops, err, ret, nadm, raised, active, probe>>

SetFenceLoad(t) ==
    /\ pc[t] = "setFence"
    /\ LET h == unpackHeader(header)
       IN  IF h.flags \cap op[t].flags # {}
           THEN \* can't set flags, already set: return rb_fence{}, false
                UNCHANGED <<pc, hdr>>
           ELSE /\ hdr' = [hdr EXCEPT ![t] = header]
                /\ pc' = [pc EXCEPT ![t] = "setFence_cas"]
    /\ UNCHANGED <<header, log, Conflict, op, r, s, scan, item, cb, adm, nops, err, ret, nadm, raised, active, probe>>

\* TRUE iff the spin loop body of spinFence ends in `continue`
spinFenceSpins(it, epoch) ==
    IF it.kind = ZeroCell THEN TRUE
    ELSE IF it.epoch = epoch THEN it.kind \notin {ShareLane, ShareRing}
    ELSE FALSE

\* from the head of the for loop at index sc.i: skip the clear bits, stop at
\* the first set bit or at i = 32
RECURSIVE spinFenceNext(_, _, _)
spinFenceNext(i, epoch, bitmap) ==
    IF i >= 32 THEN [i |-> 32, epoch |-> 0, bitmap |-> {}]
    ELSE IF 0 \notin bitmap
         THEN spinFenceNext(i + 1, Mod16(epoch + 1), Shr(bitmap, 1))
         ELSE [i |-> i, epoch |-> epoch, bitmap |-> bitmap]

spinFenceStart(f) ==
    IF f.bitmap = {} THEN [i |-> 32, epoch |-> 0, bitmap |-> {}]
    ELSE spinFenceNext(0, Mod16(f.epoch - 32), RotateLeft32(f.bitmap, 0 - (f.epoch % width)))

\* spinFence has returned: fn(rb_fence.epoch, rb_fence.new_flags) is invoked
EnterFenceCallback(t, f, sc) ==
    IF sc.i >= 32
    THEN /\ pc' = [pc EXCEPT ![t] = "fence_callback"]
         /\ cb' = [cb EXCEPT ![t] = <<f.epoch, f.new_flags>>]
    ELSE /\ pc' = [pc EXCEPT ![t] = "spinFence"]
         /\ UNCHANGED cb

\* the setFence CAS advances the epoch as an admission does
SetFenceCAS_bumpsEpoch(t) ==
    /\ pc[t] = "setFence_cas"
    /\ LET h == unpackHeader(hdr[t])
           new_header == packHeader(Header(Mod16(h.epoch + 1), h.flags \cup op[t].flags, h.bitmap))
           f == [epoch |-> h.epoch, flags |-> op[t].flags,
                 new_flags |-> h.flags \cup op[t].flags, bitmap |-> h.bitmap]
           sc == spinFenceStart(f)
       IN  IF header = hdr[t]
           THEN /\ header' = new_header
                /\ adm' = [adm EXCEPT ![t] = header]
                /\ s' = [s EXCEPT ![t] = f]
                /\ scan' = [scan EXCEPT ![t] = sc]
                /\ EnterFenceCallback(t, f, sc)
           ELSE /\ pc' = [pc EXCEPT ![t] = "setFence"]
                /\ UNCHANGED <<header, adm, s, scan, cb>>
    /\ hdr' = [hdr EXCEPT ![t] = NoWord]
    /\ UNCHANGED <<log, Conflict, op, r, item, nops, err, ret, nadm, raised, active, probe>>

SetFenceCAS(t) ==
    /\ pc[t] = "setFence_cas"
    /\ LET h == unpackHeader(hdr[t])
           new_header == packHeader(Header(h.epoch, h.flags \cup op[t].flags, h.bitmap))
           f == [epoch |-> h.epoch, flags |-> op[t].flags,
                 new_flags |-> h.flags \cup op[t].flags, bitmap |-> h.bitmap]
           sc == spinFenceStart(f)
       IN  IF header = hdr[t]
           THEN /\ header' = new_header
                /\ adm' = [adm EXCEPT ![t] = header]
                /\ s' = [s EXCEPT ![t] = f]
                /\ scan' = [scan EXCEPT ![t] = sc]
                /\ EnterFenceCallback(t, f, sc)
           ELSE /\ pc' = [pc EXCEPT ![t] = "setFence"]
                /\ UNCHANGED <<header, adm, s, scan, cb>>
    /\ hdr' = [hdr EXCEPT ![t] = NoWord]
    /\ UNCHANGED <<log, Conflict, op, r, item, nops, err, ret, nadm, raised, active, probe>>

SpinFenceStep(t) ==
    /\ pc[t] = "spinFence"
    /\ LET n  == scan[t].epoch % width
           it == unpackCell(log[n])
       IN  IF spinFenceSpins(it, scan[t].epoch)
           THEN /\ item' = [item EXCEPT ![t] = <<it>>]
                /\ UNCHANGED <<pc, scan, cb>>
           ELSE LET sc == spinFenceNext(scan[t].i + 1, Mod16(scan[t].epoch + 1),
                                        Shr(scan[t].bitmap, 1))
                IN  /\ item' = [item EXCEPT ![t] = <<>>]
                    /\ scan' = [scan EXCEPT ![t] = sc]
                    /\ EnterFenceCallback(t, s[t], sc)
    /\ UNCHANGED <<header, log, Conflict, op, hdr, r, s, adm, nops, err, ret, nadm, raised, active, probe>>

\* a failing fn makes the call return at once, its flags left raised
FenceCallbackReturn_returnsOnError(t) ==
    /\ pc[t] = "fence_callback"
    /\ cb' = [cb EXCEPT ![t] = <<>>]
    /\ \/ /\ pc' = [pc EXCEPT ![t] = "clearFence"]
          /\ err' = [err EXCEPT ![t] = "nil"]
          /\ UNCHANGED <<op, s, scan, adm, ret, raised>>
       \/ /\ pc' = [pc EXCEPT ![t] = "idle"]
          /\ ret' = [ret EXCEPT ![t] = [proc |-> op[t].proc, err |-> "error"]]
          /\ op' = [op EXCEPT ![t] = NoOp]
          /\ s' = [s EXCEPT ![t] = NoFence]
          /\ scan' = [scan EXCEPT ![t] = NoScan]
          /\ adm' = [adm EXCEPT ![t] = NoWord]
          /\ raised' = [raised EXCEPT ![t] = {}]
          /\ UNCHANGED err
    /\ UNCHANGED <<header, log, Conflict, hdr, r, item, nops, nadm, active, probe>>

\* fn returns; clearFence runs next
FenceCallbackReturn(t) ==
    /\ pc[t] = "fence_callback"
    /\ pc' = [pc EXCEPT ![t] = "clearFence"]
    /\ cb' = [cb EXCEPT ![t] = <<>>]
    /\ \E e \in {"nil", "error"} : err' = [err EXCEPT ![t] = e]
    /\ UNCHANGED <<header, log, Conflict, op, hdr, r, s, scan, item, adm, nops, ret, nadm, raised, active, probe>>

ClearFenceLoad(t) ==
    /\ pc[t] = "clearFence"
    /\ hdr' = [hdr EXCEPT ![t] = header]
    /\ pc' = [pc EXCEPT ![t] = "clearFence_cas"]
    /\ UNCHANGED <<header, log, Conflict, op, r, s, scan, item, cb, adm, nops, err, ret, nadm, raised, active, probe>>

\* Fence: the deferred clearFence has run, fn's error is returned
FenceReturn(t) ==
    /\ pc' = [pc EXCEPT ![t] = "idle"]
    /\ ret' = [ret EXCEPT ![t] = [proc |-> op[t].proc, err |-> err[t]]]
    /\ err' = [err EXCEPT ![t] = "none"]
    /\ op' = [op EXCEPT ![t] = NoOp]
    /\ s' = [s EXCEPT ![t] = NoFence]
    /\ scan' = [scan EXCEPT ![t] = NoScan]
    /\ adm' = [adm EXCEPT ![t] = NoWord]
    /\ raised' = [raised EXCEPT ![t] = {}]
    /\ UNCHANGED cb

\* after called with its arguments exchanged
PhaseAfterClear_swapped(t, end) ==
    IF err[t] # "nil"
    THEN /\ pc' = [pc EXCEPT ![t] = "idle"]
         /\ ret' = [ret EXCEPT ![t] = [proc |-> op[t].proc, err |-> err[t]]]
         /\ err' = [err EXCEPT ![t] = "none"]
         /\ op' = [op EXCEPT ![t] = NoOp]
         /\ s' = [s EXCEPT ![t] = NoFence]
         /\ scan' = [scan EXCEPT ![t] = NoScan]
         /\ adm' = [adm EXCEPT ![t] = NoWord]
         /\ raised' = [raised EXCEPT ![t] = {}]
         /\ UNCHANGED cb
    ELSE /\ pc' = [pc EXCEPT ![t] = "after"]
         /\ cb' = [cb EXCEPT ![t] = <<end, s[t].epoch>>]
         /\ UNCHANGED <<ret, err, op, s, scan, adm, raised>>

\* Phase: end := clearFence(..); if err != nil return err; return after(start, end)
PhaseAfterClear(t, end) ==
    IF err[t] # "nil"
    THEN FenceReturn(t)
    ELSE /\ pc' = [pc EXCEPT ![t] = "after"]
         /\ cb' = [cb EXCEPT ![t] = <<s[t].epoch, end>>]
         /\ UNCHANGED <<ret, err, op, s, scan, adm, raised>>

\* clearFence writing back no flags at all instead of h.flags ^ s.flags
ClearFenceCAS_clearsAllFlags(t) ==
    /\ pc[t] = "clearFence_cas"
    /\ LET h == unpackHeader(hdr[t])
           new_header == packHeader(Header(h.epoch, {}, h.bitmap))
       IN  IF header = hdr[t]
           THEN /\ header' = new_header
                /\ IF op[t].proc = "Phase"
                   THEN PhaseAfterClear(t, h.epoch)
                   ELSE FenceReturn(t)
           ELSE /\ pc' = [pc EXCEPT ![t] = "clearFence"]
                /\ UNCHANGED <<header, op, s, scan, adm, cb, err, ret, raised>>
    /\ hdr' = [hdr EXCEPT ![t] = NoWord]
    /\ UNCHANGED <<log, Conflict, r, item, nops, nadm, active, probe>>

ClearFenceCAS(t) ==
    /\ pc[t] = "clearFence_cas"
    /\ LET h == unpackHeader(hdr[t])
           new_header == packHeader(Header(h.epoch, Xor(h.flags, s[t].flags), h.bitmap))
       IN  IF header = hdr[t]
           THEN /\ header' = new_header
                /\ IF op[t].proc = "Phase"
                   THEN PhaseAfterClear(t, h.epoch)
                   ELSE FenceReturn(t)
           ELSE /\ pc' = [pc EXCEPT ![t] = "clearFence"]
                /\ UNCHANGED <<header, op, s, scan, adm, cb, err, ret, raised>>
    /\ hdr' = [hdr EXCEPT ![t] = NoWord]
    /\ UNCHANGED <<log, Conflict, r, item, nops, nadm, active, probe>>

\* after(start, end) returns; Phase returns its error
AfterReturn(t) ==
    /\ pc[t] = "after"
    /\ pc' = [pc EXCEPT ![t] = "idle"]
    /\ cb' = [cb EXCEPT ![t] = <<>>]
    /\ \E e \in {"nil", "error"} : ret' = [ret EXCEPT ![t] = [proc |-> op[t].proc, err |-> e]]
    /\ err' = [err EXCEPT ![t] = "none"]
    /\ op' = [op EXCEPT ![t] = NoOp]
    /\ s' = [s EXCEPT ![t] = NoFence]
    /\ scan' = [scan EXCEPT ![t] = NoScan]
    /\ adm' = [adm EXCEPT ![t] = NoWord]
    /\ raised' = [raised EXCEPT ![t] = {}]
    /\ UNCHANGED <<header, log, Conflict, hdr, r, item, nops, nadm, active, probe>>

(***************************************************************************)
(* Active(epoch): one load of the header, then the bit arithmetic.         *)
(***************************************************************************)
RECURSIVE ActiveLoop(_, _, _)
ActiveLoop(bitmap, i, n) ==
    IF i >= n THEN FALSE
    ELSE IF 0 \in bitmap THEN TRUE
    ELSE ActiveLoop(Shr(bitmap, 1), i + 1, n)

Active(word, epoch) ==
    LET h == unpackHeader(word)
        diff == Mod16(h.epoch - epoch)
    IN  IF h.epoch = epoch THEN h.bitmap = {}
        ELSE IF diff >= width THEN FALSE
        ELSE ActiveLoop(Shr(RotateLeft32(h.bitmap, Mod16(h.epoch - 1) % width), diff),
                        0, width - diff)

\* the arguments Active is called with, as distances behind the header epoch
ActiveDiffs == {0, 1, 2, 32}

DoActive(t) ==
    /\ pc[t] = "idle"
    /\ nops < MaxOps
    /\ nops' = nops + 1
    /\ \E d \in ActiveDiffs :
          LET epoch == Mod16(header.hi - d)
          IN  active' = [called |-> TRUE, epoch |-> epoch,
                         result |-> Active(header, epoch),
                         live |-> \E u \in Threads :
                                    /\ pc[u] \in {"push_store", "wait", "callback", "pop", "pop_and"}
                                    /\ adm[u].hi = epoch]
    /\ UNCHANGED <<header, log, Conflict, pc, op, hdr, r, s, scan, item, cb, adm, err, ret, nadm, raised, probe>>

(***************************************************************************)
(* The system.                                                             *)
(***************************************************************************)
Next ==
    \E t \in Threads :
        \/ DoLockRing(t)
        \/ DoOrderRing(t)
        \/ DoShareRing(t)
        \/ DoLockLane(t)
        \/ DoOrderLane(t)
        \/ DoShareLane(t)
        \/ DoFence(t)
        \/ DoPhase(t)
        \/ PushLoad(t)
        \/ PushCAS(t)
        \/ PushStore(t)
        \/ WaitStep(t)
        \/ CallbackReturn(t)
        \/ PopStore(t)
        \/ PopAnd(t)
        \/ SetFenceLoad(t)
        \/ SetFenceCAS(t)
        \/ SpinFenceStep(t)
        \/ FenceCallbackReturn(t)
        \/ ClearFenceLoad(t)
        \/ ClearFenceCAS(t)
        \/ AfterReturn(t)

Spec == Init /\ [][Next]_vars

\* a step of a call in progress: the thread is scheduled, its callbacks terminate
Step(t) ==
    \/ PushLoad(t)
    \/ PushCAS(t)
    \/ PushStore(t)
    \/ WaitStep(t)
    \/ CallbackReturn(t)
    \/ PopStore(t)
    \/ PopAnd(t)
    \/ SetFenceLoad(t)
    \/ SetFenceCAS(t)
    \/ SpinFenceStep(t)
    \/ FenceCallbackReturn(t)
    \/ ClearFenceLoad(t)
    \/ ClearFenceCAS(t)
    \/ AfterReturn(t)

\* the eight operations on one lane and one flag bit
FairCall(t) ==
    \/ Call(t, "LockRing", LockRing, {}, {}, "push")
    \/ Call(t, "OrderRing", OrderRing, {}, {}, "push")
    \/ Call(t, "ShareRing", ShareRing, {}, {}, "push")
    \/ Call(t, "LockLane", LockLane, Lane1, {}, "push")
    \/ Call(t, "OrderLane", OrderLane, Lane1, {}, "push")
    \/ Call(t, "ShareLane", ShareLane, Lane1, {}, "push")
    \/ Call(t, "Fence", ZeroCell, {}, {0}, "setFence")
    \/ Call(t, "Phase", ZeroCell, {}, {0}, "setFence")

NextFair == \E t \in Threads : FairCall(t) \/ Step(t)

\* fair scheduling of the threads
SpecFair == Init /\ [][NextFair]_vars /\ \A t \in Threads : WF_vars(Step(t))

\* the operations together with the Active query
NextActive == Next \/ \E t \in Threads : DoActive(t)
SpecActive == Init /\ [][NextActive]_vars

\* the Roundabout after five serialized LockLane calls have returned
FiveAdmitted == 5
SpecFive == InitAt(FiveAdmitted) /\ [][Next]_vars

(***************************************************************************)
(* The Roundabout with a long callback in slot 31: after 31 calls, thread  *)
(* 1 called LockLane, was admitted at epoch 31 and is still inside its     *)
(* callback, while 30 later calls (epochs 32..61, slots 0..29) ran to      *)
(* completion one after another.  The first of their CASes rebuilt the     *)
(* header from the unpacked bitmap, which left out bit 31.                 *)
(***************************************************************************)
PinnedThread == 1
PinnedEpoch == 31
LaterCalls == 30

InitPinned ==
    LET h0 == Header(PinnedEpoch, {}, {})
        rc == rb_cell(PinnedEpoch % width, h0, LockLane, Lane1)
        e1 == PinnedEpoch + 1 + LaterCalls
    IN  /\ header = packHeader(Header(e1, {}, {}))
        /\ log = [QuiescentAt(e1) EXCEPT ![PinnedEpoch % width] =
                      packCell(Cell(PinnedEpoch, LockLane, Lane1))]
        /\ nadm = e1
        /\ Conflict \in {"nil", "custom"}
        /\ pc = [t \in Threads |-> IF t = PinnedThread THEN "callback" ELSE "idle"]
        /\ op = [t \in Threads |-> IF t = PinnedThread
                     THEN [proc |-> "LockLane", kind |-> LockLane, lane |-> Lane1, flags |-> {}]
                     ELSE NoOp]
        /\ hdr = [t \in Threads |-> NoWord]
        /\ r = [t \in Threads |-> IF t = PinnedThread THEN rc ELSE NoCell]
        /\ s = [t \in Threads |-> NoFence]
        /\ scan = [t \in Threads |-> IF t = PinnedThread THEN waitStart(rc) ELSE NoScan]
        /\ item = [t \in Threads |-> <<>>]
        /\ cb = [t \in Threads |-> IF t = PinnedThread THEN <<rc.epoch, rc.flags>> ELSE <<>>]
        /\ adm = [t \in Threads |-> IF t = PinnedThread THEN packHeader(h0) ELSE NoWord]
        /\ nops = 0
        /\ err = [t \in Threads |-> "none"]
        /\ ret = [t \in Threads |-> NoRet]
        /\ raised = [t \in Threads |-> {}]
        /\ active = NoActive
        /\ probe = NoProbe

SpecPinned == InitPinned /\ [][Next]_vars

(***************************************************************************)
(* The decision of wait as a function: a caller of kind ck on lane cl has  *)
(* loaded the cell that a predecessor of kind pk on lane pl published at   *)
(* the expected epoch; the spin loop body either continues (blocks) or     *)
(* breaks.  The default lane test (Conflict == nil) is used.               *)
(***************************************************************************)
laneOf(kind, lane) == IF kind \in LaneKinds THEN lane ELSE {}

waitDecision(ck, cl, pk, pl, epoch) ==
    waitSpins("nil",
              rb_cell((epoch + 1) % width, Header(Mod16(epoch + 1), {}, {epoch % width}), ck, cl),
              unpackCell(packCell(Cell(epoch, pk, pl))),
              epoch)

Probe ==
    \E ck \in SemanticKinds, pk \in SemanticKinds, l1 \in Lanes, l2 \in Lanes :
        LET cl == laneOf(ck, l1)
            pl == laneOf(pk, l2)
        IN  /\ probe' = [done |-> TRUE, ck |-> ck, cl |-> cl, pk |-> pk, pl |-> pl,
                         blocks |-> waitDecision(ck, cl, pk, pl, header.hi),
                         exchanged |-> waitDecision(pk, pl, ck, cl, header.hi)]
            /\ UNCHANGED <<header, log, Conflict, pc, op, hdr, r, s, scan, item, cb, adm, nops,
                           err, ret, nadm, raised, active>>

SpecWait == Init /\ [][Probe]_vars

(***************************************************************************)
(* Nesting: the callback of the first call invokes one operation on the    *)
(* same Roundabout.  The nested call runs the same code in a frame of its  *)
(* own (InnerFrame), and the outer callback returns only after the nested  *)
(* call has returned.                                                      *)
(***************************************************************************)
OuterFrame == 1
InnerFrame == 2

AnyCall(t) ==
    \/ DoLockRing(t)
    \/ DoOrderRing(t)
    \/ DoShareRing(t)
    \/ DoLockLane(t)
    \/ DoOrderLane(t)
    \/ DoShareLane(t)
    \/ DoFence(t)
    \/ DoPhase(t)

OuterCall == nops = 0 /\ AnyCall(OuterFrame)

NestedCall == pc[OuterFrame] = "callback" /\ nops = 1 /\ AnyCall(InnerFrame)

InnerStep == Step(InnerFrame)

OuterStep ==
    /\ pc[OuterFrame] = "callback" => (pc[InnerFrame] = "idle" /\ ret[InnerFrame] # NoRet)
    /\ Step(OuterFrame)

NextNested == OuterCall \/ NestedCall \/ InnerStep \/ OuterStep

SpecNested == Init /\ [][NextNested]_vars


(***************************************************************************)
(* The Roundabout just before the 16-bit epoch wraps: after 65534 calls    *)
(* that ran to completion one after another, thread 1 was admitted at      *)
(* epoch 65534 into slot 30 with an empty bitmap and is inside its         *)
(* callback; the header is (65535, 0, bit 30).  The next admission takes   *)
(* epoch 65535 and slot 31, the one after it epoch 0 and slot 0.           *)
(***************************************************************************)
WrapEpoch == 65534
WrapKinds == {ShareLane, LockLane, LockRing}

InitWrap ==
    \E k \in WrapKinds :
        LET h0 == Header(WrapEpoch, {}, {})
            n0 == WrapEpoch % width
            rc == rb_cell(n0, h0, k, Lane1)
            e1 == Mod16(WrapEpoch + 1)
        IN  /\ header = packHeader(Header(e1, {}, {n0}))
            /\ log = [QuiescentAt(e1) EXCEPT ![n0] = packCell(Cell(WrapEpoch, k, Lane1))]
            /\ nadm = e1
            /\ Conflict \in {"nil", "custom"}
            /\ pc = [t \in Threads |-> IF t = PinnedThread THEN "callback" ELSE "idle"]
            /\ op = [t \in Threads |-> IF t = PinnedThread
                         THEN [proc |-> CASE k = ShareLane -> "ShareLane"
                                          [] k = LockLane -> "LockLane"
                                          [] k = LockRing -> "LockRing",
                               kind |-> k, lane |-> Lane1, flags |-> {}]
                         ELSE NoOp]
            /\ hdr = [t \in Threads |-> NoWord]
            /\ r = [t \in Threads |-> IF t = PinnedThread THEN rc ELSE NoCell]
            /\ s = [t \in Threads |-> NoFence]
            /\ scan = [t \in Threads |-> IF t = PinnedThread THEN waitStart(rc) ELSE NoScan]
            /\ item = [t \in Threads |-> <<>>]
            /\ cb = [t \in Threads |-> IF t = PinnedThread THEN <<rc.epoch, rc.flags>> ELSE <<>>]
            /\ adm = [t \in Threads |-> IF t = PinnedThread THEN packHeader(h0) ELSE NoWord]
            /\ nops = 0
            /\ err = [t \in Threads |-> "none"]
            /\ ret = [t \in Threads |-> NoRet]
            /\ raised = [t \in Threads |-> {}]
            /\ active = NoActive
            /\ probe = NoProbe

SpecWrap == InitWrap /\ [][Next]_vars

(***************************************************************************)
(* Packing as a function: a Header or a Cell is packed into its atomic     *)
(* word and unpacked again.  The fields are drawn from the ends of their   *)
(* ranges: the epochs 0, 1, 31 and 65535, the flag bits 0 and 15, the      *)
(* bits 0, 30 and 31 of the bitmap and of the lane, and the eight kinds.   *)
(***************************************************************************)
PackEpochs == {0, 1, 31, 65535}
PackFlags == SUBSET {0, 15}
PackBits == SUBSET {0, 30, 31}
PackKinds == ZeroCell..LockRing

PackHeader ==
    \E e \in PackEpochs, f \in PackFlags, bm \in PackBits :
        /\ probe' = [done |-> TRUE, h |-> Header(e, f, bm),
                     back |-> unpackHeader(packHeader(Header(e, f, bm)))]
        /\ UNCHANGED <<header, log, Conflict, pc, op, hdr, r, s, scan, item, cb, adm, nops,
                       err, ret, nadm, raised, active>>

PackCell ==
    \E e \in PackEpochs, k \in PackKinds, l \in PackBits :
        /\ probe' = [done |-> TRUE, c |-> Cell(e, k, l),
                     back |-> unpackCell(packCell(Cell(e, k, l)))]
        /\ UNCHANGED <<header, log, Conflict, pc, op, hdr, r, s, scan, item, cb, adm, nops,
                       err, ret, nadm, raised, active>>

NextPack == PackHeader \/ PackCell

SpecPack == Init /\ [][NextPack]_vars

(***************************************************************************)
(* Vocabulary of the properties.                                           *)
(***************************************************************************)
\* t has won its header CAS and has not finished its pop
Admitted(t) == pc[t] \in {"push_store", "wait", "callback", "pop", "pop_and"}

\* the epoch t was admitted at: the epoch of the header word its CAS replaced
AdmEpoch(t) == adm[t].hi

\* u was admitted before t (epochs compared modulo 2^16)
Earlier(u, t) == Mod16(AdmEpoch(t) - AdmEpoch(u)) \in 1..32767

\* the conflict matrix of the specification: rows are the caller's kind,
\* columns the predecessor's kind; B block, P pass, L block iff lanes conflict
Matrix(ck, pk) ==
    CASE ck = ShareLane -> (IF pk = LockLane THEN "L" ELSE IF pk = LockRing THEN "B" ELSE "P")
      [] ck = ShareRing -> (IF pk \in {LockLane, LockRing} THEN "B" ELSE "P")
      [] ck = OrderLane -> (IF pk \in ShareKinds THEN "P"
                            ELSE IF pk \in {OrderLane, LockLane} THEN "L" ELSE "B")
      [] ck = OrderRing -> (IF pk \in ShareKinds THEN "P" ELSE "B")
      [] ck = LockLane  -> (IF pk \in LaneKinds THEN "L" ELSE "B")
      [] ck = LockRing  -> "B"

\* the later caller t conflicts with its predecessor u under the matrix
Conflicts(t, u) ==
    \/ Matrix(op[t].kind, op[u].kind) = "B"
    \/ /\ Matrix(op[t].kind, op[u].kind) = "L"
       /\ laneConflict(Conflict, op[t].lane, op[u].lane)

(***************************************************************************)
(* C1: no two LockRing callbacks execute at the same time, whichever slots *)
(* their admissions landed in.                                             *)
(***************************************************************************)
C1_LockRingMutualExclusion ==
    \A t, u \in Threads :
        (t # u /\ pc[t] = "callback" /\ pc[u] = "callback")
            => ~(op[t].kind = LockRing /\ op[u].kind = LockRing)

(***************************************************************************)
(* C2: a LockRing callback never executes at the same time as the callback *)
(* of a descriptor of any other kind (ShareLane, ShareRing, OrderLane,     *)
(* OrderRing, LockLane).                                                   *)
(***************************************************************************)
C2_LockRingExcludesOtherKinds ==
    \A t, u \in Threads :
        (t # u /\ pc[t] = "callback" /\ op[t].kind = LockRing)
            => ~(pc[u] = "callback" /\ op[u].kind \in SemanticKinds \ {LockRing})

(***************************************************************************)
(* C3: two LockLane callbacks whose lanes conflict (equal lanes, or the    *)
(* installed predicate true of (later caller, predecessor)) never execute  *)
(* at the same time, for every 32-bit lane.                                *)
(***************************************************************************)
C3_LockLaneMutualExclusion ==
    \A t, u \in Threads :
        (/\ t # u
         /\ pc[t] = "callback" /\ op[t].kind = LockLane
         /\ pc[u] = "callback" /\ op[u].kind = LockLane
         /\ Earlier(u, t))
            => ~laneConflict(Conflict, op[t].lane, op[u].lane)

(***************************************************************************)
(* C4: if A was admitted before B and they conflict under the matrix, B's  *)
(* wait has not returned (B's callback has not started) until A's callback *)
(* has returned and A has begun retraction (stored its resting cell).      *)
(***************************************************************************)
C4_FifoUnderConflict ==
    \A a, b \in Threads :
        (/\ a # b
         /\ Admitted(a) /\ Admitted(b)
         /\ Earlier(a, b)
         /\ Conflicts(b, a)
         /\ pc[b] \in {"callback", "pop", "pop_and"})
            => pc[a] = "pop_and"

(***************************************************************************)
(* C5: a lane-scoped caller never waits for a lane-scoped predecessor      *)
(* whose lane does not conflict with its own: it never spins on the cell   *)
(* such a predecessor has published.                                       *)
(***************************************************************************)
C5_OtherLanesNeverWait ==
    \A t, u \in Threads :
        (/\ t # u
         /\ pc[t] = "wait" /\ item[t] # <<>>
         /\ op[t].kind \in LaneKinds
         /\ pc[u] \in {"wait", "callback", "pop"}
         /\ op[u].kind \in LaneKinds
         /\ AdmEpoch(u) = scan[t].epoch
         /\ item[t][1].epoch = scan[t].epoch
         /\ item[t][1].kind = op[u].kind)
            => laneConflict(Conflict, op[t].lane, op[u].lane)


(***************************************************************************)
(* C6: Share descriptors never block each other and neither block nor are  *)
(* blocked by Order descriptors: a Share caller never spins on a published *)
(* Share or Order cell, an Order caller never spins on a published Share   *)
(* cell.                                                                   *)
(***************************************************************************)
C6_SharesPass ==
    \A t \in Threads :
        (pc[t] = "wait" /\ item[t] # <<>>)
            => /\ ~(op[t].kind \in ShareKinds
                    /\ item[t][1].kind \in ShareKinds \cup OrderKinds)
               /\ ~(op[t].kind \in OrderKinds
                    /\ item[t][1].kind \in ShareKinds)

\* all threads are inside Share callbacks at once, the later one having had
\* the earlier one in its admission snapshot
C6_Witness ==
    /\ \A t \in Threads : pc[t] = "callback" /\ op[t].kind \in ShareKinds
    /\ \E t, u \in Threads : t # u /\ r[u].n \in r[t].bitmap

(***************************************************************************)
(* C7: of two Order admissions a before b, where either is OrderRing or    *)
(* both are OrderLane with conflicting lanes, the callback of b does not   *)
(* start until the callback of a has returned.                             *)
(***************************************************************************)
C7_OrderSerialized ==
    \A a, b \in Threads :
        (/\ a # b
         /\ Admitted(a) /\ Admitted(b)
         /\ Earlier(a, b)
         /\ op[a].kind \in OrderKinds /\ op[b].kind \in OrderKinds
         /\ \/ OrderRing \in {op[a].kind, op[b].kind}
            \/ laneConflict(Conflict, op[b].lane, op[a].lane)
         /\ pc[b] \in {"callback", "pop", "pop_and"})
            => pc[a] \in {"pop", "pop_and"}

(***************************************************************************)
(* C8: while the callback of Fence runs, every descriptor admitted at a    *)
(* lower epoch than the fence's and not of a Share kind has retracted: its *)
(* callback has returned and both its retraction writes have happened.     *)
(***************************************************************************)
C8_FenceDrain ==
    \A f, u \in Threads :
        (/\ pc[f] = "fence_callback"
         /\ Admitted(u)
         /\ Mod16(s[f].epoch - AdmEpoch(u)) \in 1..32767)
            => op[u].kind \in ShareKinds

(***************************************************************************)
(* C9: every admission invokes its callback with the epoch it was admitted *)
(* at and the flags of the header word its successful CAS replaced,        *)
(* whatever fences did to the flags after that CAS.                        *)
(***************************************************************************)
C9_CallbackArguments ==
    \A t \in Threads :
        pc[t] = "callback" => cb[t] = <<adm[t].hi, adm[t].mid>>

\* a callback runs with non-zero flags that are no longer the header's
C9_Witness ==
    \E t \in Threads :
        /\ pc[t] = "callback"
        /\ cb[t][2] # {}
        /\ unpackHeader(header).flags # cb[t][2]

(***************************************************************************)
(* C10: while the callback of Fence(flags, fn) runs every bit of flags is  *)
(* set in the header, so an admission whose CAS happens then sees them;    *)
(* the callback is passed the merged flags; the CAS of clearFence removes  *)
(* exactly those bits and leaves every other flag bit as it was.           *)
(***************************************************************************)
C10_FenceFlags ==
    [][ /\ \A t \in Threads :
              pc'[t] = "fence_callback"
                  => /\ op'[t].flags \subseteq header'.mid
                     /\ cb'[t][2] = adm'[t].mid \cup op'[t].flags
        /\ \A t, u \in Threads :
              (pc[t] = "fence_callback" /\ pc[u] = "push_cas" /\ pc'[u] = "push_store")
                  => op[t].flags \subseteq adm'[u].mid
        /\ \A t \in Threads :
              (pc[t] = "clearFence_cas" /\ pc'[t] \in {"idle", "after"})
                  => /\ op[t].flags \subseteq header.mid
                     /\ header'.mid = header.mid \ op[t].flags
      ]_vars

\* a fence callback runs beside another fence's raised bit, handed the
\* merged flags
C10_Witness ==
    \E f, g \in Threads :
        /\ f # g
        /\ pc[f] = "fence_callback"
        /\ pc[g] \in {"spinFence", "fence_callback", "clearFence", "clearFence_cas"}
        /\ cb[f][2] = op[f].flags \cup op[g].flags
        /\ header.mid = op[f].flags \cup op[g].flags

(***************************************************************************)
(* C11: Phase calls after(start, end) with start the header epoch at its   *)
(* successful setFence CAS and end the header epoch at its successful      *)
(* clearFence CAS; end - start (mod 2^16) is the number of admissions      *)
(* whose CAS landed while the flag was raised, those admissions are the    *)
(* ones with epochs start, start+1, .., end-1, and each of them was handed *)
(* flags containing the fence's bits.                                      *)
(***************************************************************************)
C11_PhaseRange ==
    [][\A p \in Threads :
          (pc[p] = "clearFence_cas" /\ pc'[p] = "after") =>
              LET start == cb'[p][1]
                  end == cb'[p][2]
                  n == Mod16(end - start)
              IN  /\ start = adm[p].hi
                  /\ end = header.hi
                  /\ end = header'.hi
                  /\ n = Cardinality(raised[p])
                  /\ {a.epoch : a \in raised[p]} = {Mod16(start + i) : i \in 0..(n - 1)}
                  /\ \A a \in raised[p] : op[p].flags \subseteq a.flags]_vars

\* after is about to run for a phase during which an admission happened
C11_Witness ==
    \E p \in Threads :
        /\ pc[p] = "after"
        /\ raised[p] # {}
        /\ Mod16(cb[p][2] - cb[p][1]) = Cardinality(raised[p])

(***************************************************************************)
(* C12: in Phase, after starts only in the step whose clearFence CAS       *)
(* cleared the phase's flag bits, and only when fn returned nil; when fn   *)
(* returned an error the flags are cleared all the same, after is not      *)
(* invoked and Phase returns fn's error.                                   *)
(***************************************************************************)
C12_PhaseAfterAndError ==
    [][\A p \in Threads :
          /\ (pc[p] # "after" /\ pc'[p] = "after") =>
                /\ pc[p] = "clearFence_cas"
                /\ op[p].proc = "Phase"
                /\ err[p] = "nil"
                /\ op[p].flags \subseteq header.mid
                /\ op[p].flags \cap header'.mid = {}
          /\ (op[p].proc = "Phase" /\ err[p] = "error") => pc'[p] # "after"
          /\ (op[p].proc = "Phase" /\ pc[p] \notin {"idle", "after"} /\ pc'[p] = "idle") =>
                /\ pc[p] = "clearFence_cas"
                /\ err[p] = "error"
                /\ op[p].flags \subseteq header.mid
                /\ op[p].flags \cap header'.mid = {}
                /\ ret'[p] = [proc |-> "Phase", err |-> "error"]]_vars

\* a Phase whose fn failed has returned that error, its bits cleared
C12_Witness ==
    \E p \in Threads :
        /\ pc[p] = "idle"
        /\ ret[p] = [proc |-> "Phase", err |-> "error"]
        /\ header.mid = {}

(***************************************************************************)
(* C13 as stated: after five LockLane admissions, Phase(0x2, fn, after)    *)
(* hands after a span end - start == 5 when no admission lands between its *)
(* setFence and clearFence, and a span >= 5 otherwise.                     *)
(***************************************************************************)
C13_SpanIsFive ==
    \A p \in Threads :
        (pc[p] = "after" /\ op[p].flags = {1}) =>
            LET span == Mod16(cb[p][2] - cb[p][1])
            IN  /\ raised[p] = {} => span = FiveAdmitted
                /\ raised[p] # {} => span >= FiveAdmitted

(***************************************************************************)
(* C13 amended: after five LockLane admissions, Phase(0x2, fn, after)      *)
(* hands after a span end - start == 0 when no admission lands between its *)
(* setFence and clearFence, and otherwise the number of admissions that    *)
(* did; the five earlier admissions are in both start and end (each at     *)
(* least 5) and cancel out.                                                *)
(***************************************************************************)
C13_SpanCountsIntervening ==
    \A p \in Threads :
        (pc[p] = "after" /\ op[p].flags = {1}) =>
            LET start == cb[p][1]
                end == cb[p][2]
                span == Mod16(end - start)
            IN  /\ raised[p] = {} => span = 0
                /\ raised[p] # {} => span = Cardinality(raised[p])
                /\ start >= FiveAdmitted
                /\ end >= FiveAdmitted
                /\ end <= nadm

\* Phase(0x2) right after the five admissions, nothing admitted meanwhile
C13_Witness ==
    \E p \in Threads :
        /\ pc[p] = "after"
        /\ op[p].flags = {1}
        /\ raised[p] = {}
        /\ cb[p] = <<FiveAdmitted, FiveAdmitted>>

(***************************************************************************)
(* C14: a call of LockLane, OrderLane, ShareLane, LockRing, OrderRing or   *)
(* ShareRing wins the push CAS once, starts its retraction only when the   *)
(* callback has returned (with or without an error), retracts the slot it  *)
(* was admitted to (resting cell stored, then that bit cleared) and        *)
(* returns the callback's error; Fence returns only through the clearFence *)
(* CAS that removes its flags, and returns the callback's error.           *)
(***************************************************************************)
AdmissionProcs == {"LockRing", "OrderRing", "ShareRing", "LockLane", "OrderLane", "ShareLane"}

C14_OneAdmissionOneRetraction ==
    [][\A t \in Threads :
          LET n == AdmEpoch(t) % width
          IN  /\ (op[t].proc \in AdmissionProcs /\ Admitted(t)) =>
                    /\ pc'[t] \notin {"push", "push_cas", "push_store"}
                       \/ pc'[t] = pc[t]
                    /\ pc[t] # "push_store" => (r[t].n = n /\ r[t].epoch = AdmEpoch(t))
              /\ (op[t].proc \in AdmissionProcs /\ pc[t] # "pop" /\ pc'[t] = "pop") =>
                    /\ pc[t] = "callback"
                    /\ err'[t] \in {"nil", "error"}
              /\ (op[t].proc \in AdmissionProcs /\ pc[t] = "pop" /\ pc'[t] # "pop") =>
                    /\ pc'[t] = "pop_and"
                    /\ log' = [log EXCEPT ![n] =
                                  packCell(Cell(Mod16(AdmEpoch(t) + width), PendingCell, {}))]
              /\ (op[t].proc \in AdmissionProcs /\ pc[t] # "idle" /\ pc'[t] = "idle") =>
                    /\ pc[t] = "pop_and"
                    /\ header' = [header EXCEPT !.lo = @ \ {n}]
                    /\ err[t] \in {"nil", "error"}
                    /\ ret'[t] = [proc |-> op[t].proc, err |-> err[t]]
              /\ (op[t].proc = "Fence" /\ pc[t] # "idle" /\ pc'[t] = "idle") =>
                    /\ pc[t] = "clearFence_cas"
                    /\ op[t].flags \subseteq header.mid
                    /\ header'.mid = header.mid \ op[t].flags
                    /\ err[t] \in {"nil", "error"}
                    /\ ret'[t] = [proc |-> "Fence", err |-> err[t]]]_vars

\* an admission call and a Fence have both returned their callback's error
C14_Witness ==
    \E t, u \in Threads :
        /\ pc[t] = "idle"
        /\ pc[u] = "idle"
        /\ ret[t].proc \in AdmissionProcs
        /\ ret[t].err = "error"
        /\ ret[u] = [proc |-> "Fence", err |-> "error"]
        /\ header.mid = {}
        /\ header.lo = {}

(***************************************************************************)
(* C15: whenever every started call has returned, the header bitmap is 0,  *)
(* the header flags are 0 and the header epoch is the number of admissions *)
(* made since construction, modulo 2^16.                                   *)
(***************************************************************************)
Quiescent == \A t \in Threads : pc[t] = "idle"

C15_QuiescentHeader ==
    Quiescent => header = packHeader(Header(Mod16(nadm), {}, {}))

\* an admission call and a fence have come and gone
C15_Witness ==
    /\ Quiescent
    /\ \E t, u \in Threads :
          /\ ret[t].proc \in AdmissionProcs
          /\ ret[u].proc \in {"Fence", "Phase"}
    /\ header.lo = {}

(***************************************************************************)
(* C16: for every slot n the epoch stored in cell n never decreases        *)
(* (modulo 2^16), is congruent to n modulo 32 once written, and advances   *)
(* by exactly 32 per admission/retraction cycle: the descriptor admitted   *)
(* at e is stored over the resting cell of epoch e (or the zero cell),     *)
(* and pop replaces that descriptor by (e+32, Pending, 0).                 *)
(***************************************************************************)
C16_CellEpochs ==
    [][/\ \A n \in 0..(width - 1) :
            /\ log[n] # ZeroWord => Mod16(log'[n].hi - log[n].hi) \in {0, width}
            /\ log'[n] # ZeroWord => log'[n].hi % width = n
       /\ \A t \in Threads :
            /\ (pc[t] = "push_store" /\ pc'[t] # "push_store") =>
                  LET e == AdmEpoch(t)
                  IN  /\ log[e % width] \in {ZeroWord, packCell(Cell(e, PendingCell, {}))}
                      /\ log'[e % width] = packCell(Cell(e, op[t].kind, op[t].lane))
            /\ (pc[t] = "pop" /\ pc'[t] # "pop") =>
                  LET e == AdmEpoch(t)
                  IN  /\ log[e % width] = packCell(Cell(e, op[t].kind, op[t].lane))
                      /\ log'[e % width] = packCell(Cell(Mod16(e + width), PendingCell, {}))]_vars

(***************************************************************************)
(* C17: Active(e) returns true if and only if a descriptor admitted at     *)
(* epoch e is still on the ring (admitted, its bit not yet cleared by pop).*)
(***************************************************************************)
C17_ActiveIffLive ==
    active.called => (active.result <=> active.live)

(***************************************************************************)
(* C18: called with the header's current epoch, Active returns true        *)
(* exactly when the header bitmap is non-zero and false when the ring is   *)
(* empty.                                                                  *)
(***************************************************************************)
C18_ActiveAtCurrentEpoch ==
    [][(active' # active /\ active'.epoch = header.hi) =>
           (active'.result <=> header.lo # {})]_vars

(***************************************************************************)
(* C19: for every slot n in 0..31, bit n of the header bitmap is set if    *)
(* and only if slot n holds a live descriptor: some admission into slot n  *)
(* has succeeded and its pop has not yet cleared the bit.  (So nothing but *)
(* the owner's pop clears the bit of a live descriptor.)                   *)
(***************************************************************************)
C19_BitmapIsLiveSet ==
    \A n \in 0..(width - 1) :
        n \in header.lo <=> \E u \in Threads : Admitted(u) /\ AdmEpoch(u) % width = n

C21_NestedDeadlock ==
    (/\ pc[OuterFrame] = "callback"
     /\ op[OuterFrame].kind = LockLane
     /\ \/ op[InnerFrame].kind = LockRing
        \/ op[InnerFrame].kind = LockLane /\ op[InnerFrame].lane = op[OuterFrame].lane)
        => pc[InnerFrame] \in {"push", "push_cas", "push_store", "wait"}

(***************************************************************************)
(* C22: a fence never blocks an admission.  While some fence has its flags *)
(* raised, a thread inside an admission call of any kind can always take   *)
(* its next step (push, wait, callback return, pop), unless another        *)
(* admitted descriptor is on the ring for it to wait for; so an operation  *)
(* admitted after the setFence runs and finishes its callback while the    *)
(* fence callback is still executing.                                      *)
(***************************************************************************)
C22_FenceNeverBlocks ==
    \A t \in Threads :
        (/\ pc[t] \in {"push", "push_cas", "push_store", "wait", "callback", "pop", "pop_and"}
         /\ \E f \in Threads : FlagsUp(f))
            => \/ ENABLED <<Step(t)>>_vars
               \/ \E u \in Threads \ {t} : Admitted(u)

\* a LockRing admitted under the raised flag has run its callback and
\* returned while the fence callback is still executing
C22_Witness ==
    \E f, t \in Threads :
        /\ pc[f] = "fence_callback"
        /\ pc[t] = "idle"
        /\ ret[t].proc = "LockRing"
        /\ \E a \in raised[f] : op[f].flags \subseteq a.flags

(***************************************************************************)
(* C23: a successful push CAS replaces a header (e, f, bm) in which bit    *)
(* n = e mod 32 is clear by (e+1, f, bm with bit n set), flags and all     *)
(* other bitmap bits unchanged; the handle it returns carries n, e, f and  *)
(* the requested kind and lane; no other step changes the header epoch, so *)
(* admissions get consecutive epochs in CAS-winner order.                  *)
(***************************************************************************)
C23_PushCASFrame ==
    [][/\ \A t \in Threads :
            /\ (pc[t] = "push_cas" /\ pc'[t] = "push_store") =>
                  LET n == header.hi % width
                  IN  /\ n \notin header.lo
                      /\ header' = [hi |-> Mod16(header.hi + 1), mid |-> header.mid,
                                    lo |-> header.lo \cup {n}]
                      /\ adm'[t] = header
            /\ (pc[t] = "push_store" /\ pc'[t] # "push_store") =>
                  /\ r'[t].n = adm[t].hi % width
                  /\ r'[t].epoch = adm[t].hi
                  /\ r'[t].flags = adm[t].mid
                  /\ r'[t].kind = op[t].kind
                  /\ r'[t].lane = op[t].lane
       /\ header'.hi # header.hi =>
            \E t \in Threads : pc[t] = "push_cas" /\ pc'[t] = "push_store"]_vars

(***************************************************************************)
(* C24: push never succeeds while the slot at index epoch mod 32 still     *)
(* holds a live descriptor, for any of the 32 slots: no two live           *)
(* descriptors occupy the same slot, and a push store never lands on a     *)
(* live descriptor's cell.                                                 *)
(***************************************************************************)
C24_NoSlotSharedByLive ==
    \A t, u \in Threads :
        (t # u /\ Admitted(t) /\ Admitted(u))
            => AdmEpoch(t) % width # AdmEpoch(u) % width

(***************************************************************************)
(* C25: the bitmap in the handle of a successful push has bit k set        *)
(* exactly for the slots k that held a live descriptor at the instant of   *)
(* the header CAS: every still-live earlier descriptor in any of the 32    *)
(* slots, not the admitter's own slot, no later arrival.                   *)
(***************************************************************************)
C25_HandleBitmapIsLiveSet ==
    [][\A t \in Threads :
          (pc[t] = "push_cas" /\ pc'[t] = "push_store") =>
              unpackHeader(hdr[t]).bitmap =
                  {AdmEpoch(u) % width : u \in {v \in Threads \ {t} : Admitted(v)}}]_vars

C27_WaitFollowsMatrix ==
    [][\A t, u \in Threads :
          (/\ t # u
           /\ pc[t] = "wait"
           /\ pc[u] \in {"wait", "callback", "pop"}
           /\ AdmEpoch(u) = scan[t].epoch
           /\ log[AdmEpoch(u) % width] = packCell(Cell(AdmEpoch(u), op[u].kind, op[u].lane))
           /\ (item'[t] # item[t] \/ scan'[t] # scan[t]))
              => ((scan'[t] = scan[t]) <=> Conflicts(t, u))]_vars

(***************************************************************************)
(* C28: with the default equality predicate the conflict relation of wait  *)
(* is symmetric: a caller (k1, l1) blocks on a predecessor (k2, l2) iff a  *)
(* caller (k2, l2) blocks on a predecessor (k1, l1); every pair with a     *)
(* LockRing blocks and every pair of Shares passes.                        *)
(***************************************************************************)
C28_ConflictSymmetric ==
    probe.done =>
        /\ probe.blocks <=> probe.exchanged
        /\ (probe.ck = LockRing \/ probe.pk = LockRing) => probe.blocks
        /\ (probe.ck \in ShareKinds /\ probe.pk \in ShareKinds) => ~probe.blocks

(***************************************************************************)
(* C29: pop first stores (epoch + 32, Pending, 0) into its cell and only   *)
(* then clears its bit in the header; the store changes no other cell and  *)
(* not the header, the clearing changes no other bit, not the epoch, not   *)
(* the flags and no cell; so while a descriptor is being retracted and its *)
(* cell still shows it, its bit is set.                                    *)
(***************************************************************************)
C29_PopOrderAndFrame ==
    [][\A t \in Threads :
          LET n == r[t].n
          IN  /\ (pc[t] = "pop" /\ pc'[t] # "pop") =>
                    /\ pc'[t] = "pop_and"
                    /\ log' = [log EXCEPT ![n] =
                                  packCell(Cell(Mod16(r[t].epoch + width), PendingCell, {}))]
                    /\ header' = header
              /\ (pc[t] = "pop_and" /\ pc'[t] # "pop_and") =>
                    /\ header' = [header EXCEPT !.lo = @ \ {n}]
                    /\ log' = log
              /\ (pc[t] = "pop"
                  /\ log[n] = packCell(Cell(r[t].epoch, r[t].kind, r[t].lane)))
                    => n \in header.lo]_vars

(***************************************************************************)
(* C30: once the cell of an admitted descriptor shows (epoch, kind, lane)  *)
(* with its semantic kind, the cell keeps this value until the owning      *)
(* thread's pop stores over it; no step of another thread writes it.       *)
(***************************************************************************)
C30_PublishedCellStable ==
    [][\A u \in Threads :
          LET n == AdmEpoch(u) % width
          IN  (/\ pc[u] \in {"wait", "callback", "pop"}
               /\ log[n] = packCell(Cell(AdmEpoch(u), op[u].kind, op[u].lane))
               /\ ~(pc[u] = "pop" /\ pc'[u] = "pop_and"))
                  => log'[n] = log[n]]_vars

(***************************************************************************)
(* C31: setFence returns retry and leaves the header unchanged when a      *)
(* requested bit is already set in the header flags or when the header CAS *)
(* loses; when the CAS succeeds the new header flags are the old flags OR  *)
(* the requested flags and the returned rb_fence holds the epoch, the      *)
(* requested flags, the merged flags and the bitmap of the header that the *)
(* CAS replaced.                                                           *)
(***************************************************************************)
C31_SetFenceResult ==
    [][\A t \in Threads :
          /\ (pc[t] = "setFence" /\ header.mid \cap op[t].flags # {}) =>
                pc'[t] = "setFence"
          /\ SetFenceLoad(t) => header' = header /\ s'[t] = NoFence
          /\ (pc[t] = "setFence_cas" /\ pc'[t] = "setFence") =>
                /\ header # hdr[t]
                /\ header' = header
                /\ s'[t] = NoFence
          /\ (pc[t] = "setFence_cas" /\ pc'[t] \notin {"setFence_cas", "setFence"}) =>
                /\ header = hdr[t]
                /\ header'.mid = header.mid \cup op[t].flags
                /\ s'[t].epoch = header.hi
                /\ s'[t].flags = op[t].flags
                /\ s'[t].new_flags = header.mid \cup op[t].flags
                /\ s'[t].bitmap = header.lo]_vars

(***************************************************************************)
(* C32: a successful setFence CAS and a successful clearFence CAS change   *)
(* only the flags of the header: the header epoch, each of the 32 bitmap   *)
(* bits and every cell are the same right after the CAS as right before    *)
(* it, so a fence takes no slot and never alters slot occupancy.           *)
(***************************************************************************)
C32_FenceFrame ==
    [][\A t \in Threads :
          (\/ pc[t] = "setFence_cas" /\ pc'[t] \notin {"setFence_cas", "setFence"}
           \/ pc[t] = "clearFence_cas" /\ pc'[t] \notin {"clearFence_cas", "clearFence"})
             => /\ header'.hi = header.hi
                /\ header'.lo = header.lo
                /\ log' = log]_vars

(***************************************************************************)
(* C33: spinFence passes published Share predecessors and nothing else:    *)
(* while the callback of a Fence or Phase runs, every descriptor admitted  *)
(* before the fence has written its cell, and those of kind OrderLane,     *)
(* OrderRing, LockLane or LockRing have stored their resting cell; only a  *)
(* ShareLane or ShareRing may still be inside its callback.  A LockRing    *)
(* admitted after a Share does wait: while its callback runs the Share has *)
(* stored its resting cell.                                                *)
(***************************************************************************)
C33_FencePassesOnlyShares ==
    /\ \A f, u \in Threads :
          (/\ pc[f] = "fence_callback"
           /\ Admitted(u)
           /\ Mod16(s[f].epoch - AdmEpoch(u)) \in 1..32767)
              => /\ pc[u] # "push_store"
                 /\ op[u].kind \notin ShareKinds => pc[u] = "pop_and"
    /\ \A t, u \in Threads :
          (/\ pc[t] = "callback" /\ op[t].kind = LockRing
           /\ Admitted(u) /\ Earlier(u, t)
           /\ op[u].kind \in ShareKinds)
              => pc[u] = "pop_and"

(***************************************************************************)
(* C34: a descriptor whose callback has not returned pins its slot,        *)
(* whichever of the 32 slots it is: while the callback admitted at epoch e *)
(* has not returned, every push that succeeds is for one of the epochs     *)
(* e+1 .. e+31, never for e+32, so at most 31 further admissions succeed.  *)
(***************************************************************************)
C34_PinnedSlotBlocksReuse ==
    [][\A t, u \in Threads :
          (/\ t # u
           /\ pc[u] \in {"push_store", "wait", "callback"}
           /\ pc[t] = "push_cas" /\ pc'[t] = "push_store")
              => Mod16(hdr[t].hi - AdmEpoch(u)) \in 1..31]_vars

(***************************************************************************)
(* C35: the protocol is unaffected by the 16-bit epoch wrap.  An admission *)
(* advances the header epoch by one modulo 2^16 and the slot index by one  *)
(* modulo 32, also from 65535 (slot 31) to 0 (slot 0); the cell an         *)
(* admission stores over rests at exactly its epoch, and pop at epoch e    *)
(* leaves (e + 32) mod 2^16, an epoch of the same slot; the predecessor    *)
(* epoch that wait examines in iteration i is epoch - 31 + i and the one   *)
(* spinFence examines is epoch - 32 + i, modulo 2^16, and a live           *)
(* predecessor in the examined slot carries exactly that epoch in its      *)
(* published cell.                                                         *)
(***************************************************************************)
C35_EpochWrap ==
    [][\A t \in Threads :
          /\ (pc[t] = "push_cas" /\ pc'[t] = "push_store") =>
                /\ header'.hi = Mod16(header.hi + 1)
                /\ header'.hi % width = ((header.hi % width) + 1) % width
                /\ header.hi = 65535 => (header.hi % width = 31 /\ header'.hi = 0)
          /\ (pc[t] = "push_store" /\ pc'[t] # "push_store") =>
                log[AdmEpoch(t) % width] = packCell(Cell(AdmEpoch(t), PendingCell, {}))
          /\ (pc[t] = "pop" /\ pc'[t] = "pop_and") =>
                /\ log'[r[t].n] = packCell(Cell(Mod16(r[t].epoch + 32), PendingCell, {}))
                /\ log'[r[t].n].hi % width = r[t].n
                /\ r[t].epoch >= 65504 => log'[r[t].n].hi = r[t].epoch - 65504
          /\ pc'[t] = "wait" =>
                /\ Mod16(AdmEpoch(t) - scan'[t].epoch) = 31 - scan'[t].i
                /\ \A u \in Threads :
                      (/\ u # t /\ Admitted(u) /\ Earlier(u, t)
                       /\ AdmEpoch(u) % width = scan'[t].epoch % width)
                         => /\ AdmEpoch(u) = scan'[t].epoch
                            /\ pc[u] \in {"wait", "callback", "pop"} =>
                                  unpackCell(log[AdmEpoch(u) % width]).epoch = scan'[t].epoch
          /\ pc'[t] = "spinFence" =>
                /\ Mod16(s'[t].epoch - scan'[t].epoch) = 32 - scan'[t].i
                /\ \A u \in Threads :
                      (/\ u # t /\ Admitted(u)
                       /\ Mod16(s'[t].epoch - AdmEpoch(u)) \in 1..32767
                       /\ AdmEpoch(u) % width = scan'[t].epoch % width)
                         => /\ AdmEpoch(u) = scan'[t].epoch
                            /\ pc[u] \in {"wait", "callback", "pop"} =>
                                  unpackCell(log[AdmEpoch(u) % width]).epoch = scan'[t].epoch]_vars

\* after the wrap: the admission of epoch 65535 has retracted and left epoch
\* 31 in slot 31, and the admission of epoch 0 examines the cell of its live
\* predecessor of epoch 65534
C35_Witness ==
    \E t, u \in Threads :
        /\ pc[t] = "wait" /\ AdmEpoch(t) = 0
        /\ scan[t].epoch = WrapEpoch /\ scan[t].i = 29
        /\ pc[u] = "callback" /\ AdmEpoch(u) = WrapEpoch
        /\ log[31] = packCell(Cell(31, PendingCell, {}))
        /\ header.hi = 1

(***************************************************************************)
(* C36: in every reachable state and for every slot 0..31, if the bit of   *)
(* the slot is clear in the header bitmap then the cell of the slot holds  *)
(* kind Zero or Pending: a cell holding a semantic kind has its bit set.   *)
(***************************************************************************)
C36_ClearBitRestingCell ==
    \A n \in 0..(width - 1) :
        n \notin header.lo => log[n].mid \in {ZeroCell, PendingCell}

(***************************************************************************)
(* C37: two Fence or Phase operations whose flag arguments share a bit     *)
(* never have their callbacks executing at the same time: from the         *)
(* successful setFence CAS of one until its clearFence CAS the other stays *)
(* in setFence, retrying.  Fences with disjoint flag bits may overlap.     *)
(***************************************************************************)
C37_OverlappingFencesExclude ==
    [][\A t, u \in Threads :
          (/\ t # u
           /\ pc[u] \in {"spinFence", "fence_callback", "clearFence", "clearFence_cas"}
           /\ op[t].flags \cap op[u].flags # {})
              => /\ pc[t] # "fence_callback"
                 /\ pc[t] \in {"setFence", "setFence_cas"} =>
                       pc'[t] \in {"setFence", "setFence_cas"}]_vars

\* a fence is inside its callback while another one that asks for one of its
\* bits is held in setFence
C37_Witness ==
    \E t, u \in Threads :
        /\ t # u
        /\ pc[u] = "fence_callback"
        /\ pc[t] = "setFence"
        /\ op[t].flags \cap op[u].flags # {}
        /\ op[t].flags \cap header.mid # {}

(***************************************************************************)
(* C38: in every reachable state the header flags are the OR of the flag   *)
(* arguments of the fences that have succeeded in setFence and have not    *)
(* completed clearFence; the push CAS and both writes of pop leave the     *)
(* flags as they are, and a successful clearFence CAS removes exactly the  *)
(* bits its own setFence added and sets none.                              *)
(***************************************************************************)
C38_FlagsAreHeldFlags ==
    [][/\ header.mid = UNION {op[t].flags : t \in {u \in Threads :
              pc[u] \in {"spinFence", "fence_callback", "clearFence", "clearFence_cas"}}}
       /\ header'.mid = UNION {op'[t].flags : t \in {u \in Threads :
              pc'[u] \in {"spinFence", "fence_callback", "clearFence", "clearFence_cas"}}}
       /\ \A t \in Threads :
             /\ (pc[t] = "push_cas" /\ pc'[t] = "push_store") => header'.mid = header.mid
             /\ (pc[t] = "pop" /\ pc'[t] = "pop_and") => header'.mid = header.mid
             /\ (pc[t] = "pop_and" /\ pc'[t] # "pop_and") => header'.mid = header.mid
             /\ (pc[t] = "clearFence_cas" /\ pc'[t] \notin {"clearFence_cas", "clearFence"}) =>
                   /\ s[t].flags = op[t].flags
                   /\ s[t].flags \subseteq header.mid
                   /\ header'.mid = header.mid \ s[t].flags]_vars

\* two fences hold disjoint flags at once, one of them inside its callback and
\* the other about to clear
C38_Witness ==
    \E t, u \in Threads :
        /\ t # u
        /\ pc[t] = "fence_callback" /\ pc[u] = "clearFence_cas"
        /\ op[t].flags # {} /\ op[u].flags # {}
        /\ header.mid = op[t].flags \cup op[u].flags
        /\ hdr[u] = header

(***************************************************************************)
(* C39: header packing round-trips: for every Header h with a 16-bit       *)
(* epoch, 16-bit flags and a 32-bit bitmap, unpackHeader(h.pack()) is h;   *)
(* each of the 32 bitmap bits written into the word is read back.          *)
(***************************************************************************)
C39_HeaderRoundTrip ==
    (probe.done /\ "h" \in DOMAIN probe) => probe.back = probe.h

(***************************************************************************)
(* C40: cell packing round-trips: for every Cell c with a 16-bit epoch, a  *)
(* kind and a 32-bit lane, unpackCell(c.pack()) is c; the lane a scanner   *)
(* reads from a cell is the lane the admitter passed to push.              *)
(***************************************************************************)
C40_CellRoundTrip ==
    (probe.done /\ "c" \in DOMAIN probe) => probe.back = probe.c

====
